---- MODULE Spec2Model ----
(***************************************************************************)
(* Sub-resource reconciliation of the NFS feature of a StorageCluster:     *)
(* the per-kind reconcilers ocsNFSService, ocsCephNetworkFilesystem,       *)
(* ocsCephNFS, ocsCephNFSBlockPool and ocsCephNFSService, each with the    *)
(* entry points ensureCreated and ensureDeleted, running against an object *)
(* store (r.Client) that other actors use at the same time.                *)
(*                                                                         *)
(* One reconciliation pass is a sequence of steps, one per substrate call: *)
(* other actors' steps may fall between two calls of a pass.               *)
(*                                                                         *)
(* Each reconciler is studied on its own: a behaviour is the life of one   *)
(* reconciler and of the object it manages, next to the objects of the     *)
(* other reconcilers of its build. The sources hold two definitions of     *)
(* newNFSService on the same receiver, which no single program can         *)
(* contain: a program is one of two builds, the service of nfsservice.go   *)
(* with the exporter it selects, or the service of the CephNFS file with   *)
(* its exporter and backing pool.                                          *)
(***************************************************************************)
EXTENDS Integers, Sequences, FiniteSets, TLC

VARIABLES
    kind,       \* the reconciler under study: the receiver of ensureCreated and ensureDeleted
    parent,     \* the StorageCluster (the parent resource) as stored
    live,       \* the object store: key -> live object, or Absent
    pass,       \* the reconciliation pass in progress, Idle between passes
    settled,    \* the pass before was an ensureCreated that wrote the object and
                \* returned no error; since its write nobody else has acted, the
                \* parent is as it was, and no ensureDeleted has been called
    ext         \* number of steps other actors have taken

vars == <<kind, parent, live, pass, settled, ext>>

\* ------------------------------------------------------------------ bounds

\* Steps other actors (users, the garbage collector, other operators) take in
\* one behaviour; the store completing a deletion is not counted.
MaxExternal == 1

\* ---------------------------------------------------------------- versions

\* resourceVersion values the store hands out. The only holder of a fetched
\* copy is the pass in progress and versions are only compared for equality,
\* so all that matters of a new version is that it differs from the held one.
Versions == {"rv0", "rv1"}

\* ------------------------------------------------------------- the parent

ParentName == "ocsinit"
ParentNamespace == "openshift-storage"

NFSSettings == {"nil", "disabled", "enabled"}      \* Spec.NFS == nil, Enable false, Enable true
NetworkSettings == {"nil", "pod", "host"}          \* Spec.Network == nil, HostNetwork false, true
ResourceSettings == {"unset", "custom"}            \* Spec.Resources["nfs"] absent or given

Parents ==
    [name : {ParentName}, namespace : {ParentNamespace},
     nfs : NFSSettings, network : NetworkSettings, resources : ResourceSettings]

\* The controller owner reference SetControllerReference records.
OwnerRefOf(p) == [kind |-> "StorageCluster", name |-> p.name, controller |-> TRUE]

\* An owner reference some other actor recorded.
OtherOwner == [kind |-> "Other", name |-> "other", controller |-> FALSE]

\* ------------------------------------------------------------ the kinds

Kinds == {"NFSService", "CephNetworkFilesystem", "CephNFS", "CephNFSBlockPool", "CephNFSService"}

\* The reconcilers built together with reconciler k.
BuildOf(k) ==
    IF k \in {"NFSService", "CephNetworkFilesystem"}
    THEN {"NFSService", "CephNetworkFilesystem"}
    ELSE {"CephNFS", "CephNFSBlockPool", "CephNFSService"}

\* The settings of the parent the builder of reconciler k reads, next to the
\* feature flag every reconciler reads.
Reads(k) ==
    CASE k = "NFSService" -> {"nfs", "network"}
      [] k \in {"CephNetworkFilesystem", "CephNFS"} -> {"nfs", "resources"}
      [] OTHER -> {"nfs"}

\* The parents reconciler k can tell apart: a setting it does not read is
\* left as it is when nobody sets it.
ParentsOf(k) ==
    {p \in Parents : /\ "network" \notin Reads(k) => p.network = "nil"
                     /\ "resources" \notin Reads(k) => p.resources = "unset"}

\* The object type each reconciler manages.
ObjectKind(k) ==
    CASE k \in {"NFSService", "CephNFSService"} -> "Service"
      [] k \in {"CephNetworkFilesystem", "CephNFS"} -> "CephNFS"
      [] OTHER -> "CephBlockPool"

\* ------------------------------------------------------------ the names

\* generateNameForNFSService, generateNameForCephNetworkFilesystem,
\* generateNameForCephNFS, generateNameForCephNFSBlockPool: the parent's name
\* followed by a suffix fixed per kind ("ocsinit-cephnfs-service", ...).
GenerateNameForNFSService(p) == <<p.name, "cephnfs-service">>
GenerateNameForCephNetworkFilesystem(p) == <<p.name, "cephnetworkfilesystem">>
GenerateNameForCephNFS(p) == <<p.name, "cephnfs">>
GenerateNameForCephNFSBlockPool(p) == <<p.name, "cephnfs-builtin-pool">>

\* The name each builder gives its object (ObjectMeta.Name).
NameOf(k, p) ==
    CASE k = "NFSService" -> GenerateNameForNFSService(p)
      [] k = "CephNetworkFilesystem" -> GenerateNameForCephNetworkFilesystem(p)
      [] k = "CephNFS" -> GenerateNameForCephNFS(p)
      [] k = "CephNFSBlockPool" -> GenerateNameForCephNFSBlockPool(p)
      [] OTHER -> GenerateNameForNFSService(p)

\* The key a reconciler addresses: types.NamespacedName of the built object,
\* within the object type of the variable it fetches into.
KeyOf(k, p) == [type |-> ObjectKind(k), name |-> NameOf(k, p), namespace |-> p.namespace]

Keys == {KeyOf(k, p) : k \in Kinds, p \in Parents}

\* --------------------------------------------------------- desired specs

nfsPort == 2049

\* defaults.GetDaemonResources(name, custom): the override when given, else the default.
GetDaemonResources(name, p) ==
    IF p.resources = "custom" THEN <<name, "custom">> ELSE <<name, "default">>

\* getPlacement(sc, component): the placement of the component, from the parent.
GetPlacement(p, component) == <<component, "placement">>

openshiftUserCritical == "openshift-user-critical"

\* A variant that selects the pods of the exporter of the CephNFS reconciler.
NFSServiceSpecOldSelector(p) ==
    [ports |-> <<[name |-> "nfs", port |-> nfsPort, protocol |-> "TCP", targetPort |-> nfsPort]>>,
     selector |-> [app |-> "rook-ceph-nfs", ceph_nfs |-> GenerateNameForCephNFS(p)],
     sessionAffinity |-> "ClientIP",
     clusterIP |-> IF p.network = "host" THEN "None" ELSE ""]

\* Spec of newNFSService (nfsservice.go).
NFSServiceSpec(p) ==
    [ports |-> <<[name |-> "nfs", port |-> nfsPort, protocol |-> "TCP", targetPort |-> nfsPort]>>,
     selector |-> [app |-> "rook-ceph-nfs", ceph_nfs |-> GenerateNameForCephNetworkFilesystem(p)],
     sessionAffinity |-> "ClientIP",
     clusterIP |-> IF p.network = "host" THEN "None" ELSE ""]

\* Spec of newNFSService (the variant kept with the CephNFS reconciler).
CephNFSServiceSpec(p) ==
    [ports |-> <<[name |-> "nfs", port |-> nfsPort, protocol |-> "", targetPort |-> 0]>>,
     selector |-> [app |-> "rook-ceph-nfs", ceph_nfs |-> GenerateNameForCephNFS(p)],
     sessionAffinity |-> "ClientIP",
     clusterIP |-> ""]

\* Spec of newCephNetworkFilesystemInstance and of newCephNFSInstance.
NFSGaneshaSpec(p) ==
    [active |-> 1,
     placement |-> GetPlacement(p, "nfs"),
     resources |-> GetDaemonResources("nfs", p),
     priorityClassName |-> openshiftUserCritical]

\* Spec of newCephNFSBlockPoolInstance.
NamedBlockPoolSpec(p) ==
    [name |-> ".nfs",
     failureDomain |-> <<"failureDomain", p.name>>,
     replicated |-> <<"replicated", "data">>,
     enableRBDStats |-> TRUE]

SpecOf(k, p) ==
    CASE k = "NFSService" -> NFSServiceSpec(p)
      [] k = "CephNFSService" -> CephNFSServiceSpec(p)
      [] k \in {"CephNetworkFilesystem", "CephNFS"} -> NFSGaneshaSpec(p)
      [] OTHER -> NamedBlockPoolSpec(p)

\* -------------------------------------------------------------- objects

Absent == [absent |-> TRUE]

\* deletionTimestamp and finalizers are kept as "set or not"; resourceVersion
\* and uid are "" on an object the store has not yet accepted.
NewObject(k, p) ==
    [name |-> NameOf(k, p), namespace |-> p.namespace,
     owners |-> {OwnerRefOf(p)}, spec |-> SpecOf(k, p),
     dt |-> FALSE, fin |-> FALSE, rv |-> "", uid |-> ""]

\* --------------------------------------------------------------- errors

Nil == [code |-> "nil", name |-> <<>>, cause |-> "nil"]
Err(code, name, cause) == [code |-> code, name |-> name, cause |-> cause]

\* reconcile.Result{}: Requeue false, RequeueAfter 0.
ZeroResult == [requeue |-> FALSE, requeueAfter |-> 0]

\* How the messages of ensureDeleted call the object of each reconciler.
KindWord(k) ==
    CASE k \in {"NFSService", "CephNFSService"} -> "NFS Service"
      [] k = "CephNetworkFilesystem" -> "cephNetworkFilesystem"
      [] k = "CephNFS" -> "CephNFS"
      [] OTHER -> "CephBlockPool"

\* The text of an error returned by the reconciler of kind k: the words of
\* the format of fmt.Errorf, the word for the kind among them ("" when the
\* format has none), and the name and the cause it is given. An error of the
\* client is returned as it came.
ErrorText(k, err) ==
    CASE err.code = "MarkedForDeletion" ->
            [format |-> "failed to restore initialization object %s because it is marked for deletion",
             kind |-> "", name |-> err.name, cause |-> "nil"]
      [] err.code = "UnableToRetrieve" ->
            [format |-> "uninstall: Unable to retrieve %v: %v",
             kind |-> KindWord(k), name |-> err.name, cause |-> err.cause]
      [] err.code = "FailedToDelete" ->
            [format |-> "uninstall: Failed to delete %v: %v",
             kind |-> KindWord(k), name |-> err.name, cause |-> err.cause]
      [] err.code = "WaitingToBeDeleted" ->
            [format |-> "uninstall: Waiting for %v to be deleted",
             kind |-> KindWord(k), name |-> err.name, cause |-> "nil"]
      [] OTHER -> [format |-> err.code, kind |-> "", name |-> <<>>, cause |-> "nil"]

\* --------------------------------------------------------- the builders

\* controllerutil.SetControllerReference fails when r.Scheme cannot resolve
\* the owner; the builder then returns nil and that error.
Build(k, p, schemeOK) ==
    IF schemeOK
    THEN [obj |-> NewObject(k, p), err |-> Nil]
    ELSE [obj |-> Absent, err |-> Err("SetControllerReference", <<>>, "nil")]

\* ----------------------------------------------------- existence policy

\* A variant that takes a parent without NFS settings for an enabled one.
ShouldExistUnlessDisabled(k, p) == ~(p.nfs = "disabled")

\* instance.Spec.NFS == nil || !instance.Spec.NFS.Enable sends ensureCreated
\* to ensureDeleted; the resource should exist otherwise.
ShouldExist(k, p) == ~(p.nfs = "nil" \/ ~(p.nfs = "enabled"))

\* ------------------------------------------------------ the object store

\* The resourceVersion held by the pass in its fetched copy, "" when none.
HeldVersion == IF pass.existing = Absent THEN "" ELSE pass.existing.rv

FreshVersion == CHOOSE v \in Versions : v # HeldVersion

IsNotFound(err) == err.code = "NotFound"

\* r.Client.Get: `fault` is an availability failure of the call.
ClientGet(key, fault) ==
    IF fault THEN [err |-> Err("Transient", <<>>, "nil"), obj |-> Absent]
    ELSE IF live[key] = Absent THEN [err |-> Err("NotFound", <<>>, "nil"), obj |-> Absent]
    ELSE [err |-> Nil, obj |-> live[key]]

\* r.Client.Create: rejected when an object is stored under the key; the
\* store assigns uid and resourceVersion.
ClientCreate(key, obj, fault) ==
    IF fault THEN [err |-> Err("Transient", <<>>, "nil"), store |-> live]
    ELSE IF live[key] # Absent THEN [err |-> Err("AlreadyExists", <<>>, "nil"), store |-> live]
    ELSE [err |-> Nil,
          store |-> [live EXCEPT ![key] =
                        [obj EXCEPT !.uid = "uid", !.rv = FreshVersion, !.dt = FALSE]]]

\* r.Client.Update: a conditional update. It is rejected when the object is
\* gone or when the submitted resourceVersion is not the stored one; uid and
\* deletionTimestamp stay the store's; an update that changes nothing writes
\* nothing; an object marked for deletion goes once its finalizers are gone.
ClientUpdate(key, obj, fault) ==
    IF fault THEN [err |-> Err("Transient", <<>>, "nil"), store |-> live]
    ELSE IF live[key] = Absent THEN [err |-> Err("NotFound", <<>>, "nil"), store |-> live]
    ELSE IF obj.rv # "" /\ obj.rv # live[key].rv
    THEN [err |-> Err("Conflict", <<>>, "nil"), store |-> live]
    ELSE LET cur == live[key]
             new == [cur EXCEPT !.owners = obj.owners, !.spec = obj.spec, !.fin = obj.fin]
         IN [err |-> Nil,
             store |-> IF new = cur THEN live
                       ELSE IF new.dt /\ ~new.fin THEN [live EXCEPT ![key] = Absent]
                       ELSE [live EXCEPT ![key] = [new EXCEPT !.rv = FreshVersion]]]

\* r.Client.Delete: removes an object without finalizers, marks one with
\* finalizers for deletion, and leaves an already marked one as it is.
ClientDelete(key, fault) ==
    IF fault THEN [err |-> Err("Transient", <<>>, "nil"), store |-> live]
    ELSE IF live[key] = Absent THEN [err |-> Err("NotFound", <<>>, "nil"), store |-> live]
    ELSE LET cur == live[key]
         IN [err |-> Nil,
             store |-> IF cur.dt THEN live
                       ELSE IF cur.fin
                       THEN [live EXCEPT ![key] = [cur EXCEPT !.dt = TRUE, !.rv = FreshVersion]]
                       ELSE [live EXCEPT ![key] = Absent]]

\* ------------------------------------------------------- ensureCreated

\* A variant that logs the pending deletion and returns no error.
EnsureCreatedAfterGetLogOnly(got) ==
    CASE got.err = Nil ->
            IF got.obj.dt
            THEN [pc |-> "done", err |-> Nil]
            ELSE [pc |-> "ec_update", err |-> Nil]
      [] IsNotFound(got.err) -> [pc |-> "ec_create", err |-> Nil]
      [] OTHER -> [pc |-> "done", err |-> Nil]

\* A variant without the check of the deletion timestamp.
EnsureCreatedAfterGetNoCheck(got) ==
    CASE got.err = Nil -> [pc |-> "ec_update", err |-> Nil]
      [] IsNotFound(got.err) -> [pc |-> "ec_create", err |-> Nil]
      [] OTHER -> [pc |-> "done", err |-> Nil]

\* The switch on the error of the fetch: found and marked for deletion,
\* found, not found; an error that is neither nil nor not-found matches no
\* case and falls through to the final return.
EnsureCreatedAfterGet(got) ==
    CASE got.err = Nil ->
            IF got.obj.dt
            THEN [pc |-> "done", err |-> Err("MarkedForDeletion", got.obj.name, "nil")]
            ELSE [pc |-> "ec_update", err |-> Nil]
      [] IsNotFound(got.err) -> [pc |-> "ec_create", err |-> Nil]
      [] OTHER -> [pc |-> "done", err |-> Nil]

\* A variant that appends the owner references to those of the fetched object.
MergeAppendingOwners(k, desired, existing) ==
    IF k = "NFSService"
    THEN [existing EXCEPT !.owners = @ \cup desired.owners,
                          !.spec = [existing.spec EXCEPT !.ports = desired.spec.ports,
                                                         !.selector = desired.spec.selector,
                                                         !.sessionAffinity = desired.spec.sessionAffinity]]
    ELSE [existing EXCEPT !.owners = @ \cup desired.owners, !.spec = desired.spec]

\* A variant that writes a spec made of the fields it sets alone, whatever
\* else the fetched spec held.
MergeResettingSpec(k, desired, existing) ==
    IF k = "NFSService"
    THEN [existing EXCEPT !.owners = desired.owners,
                          !.spec = [desired.spec EXCEPT !.clusterIP = ""]]
    ELSE [existing EXCEPT !.owners = desired.owners, !.spec = desired.spec]

\* A variant that submits the built object without the fetched resourceVersion.
MergeDroppingVersion(k, desired, existing) ==
    [existing EXCEPT !.owners = desired.owners, !.spec = desired.spec, !.rv = ""]

\* A variant that submits the built object under the fetched resourceVersion.
MergeIntoDesired(k, desired, existing) == [desired EXCEPT !.rv = existing.rv]

\* What the update path writes into the fetched object before submitting it:
\* the owner references, and the whole spec, or for the NFS Service of
\* nfsservice.go the ports, the selector and the session affinity.
Merge(k, desired, existing) ==
    IF k = "NFSService"
    THEN [existing EXCEPT !.owners = desired.owners,
                          !.spec = [existing.spec EXCEPT !.ports = desired.spec.ports,
                                                         !.selector = desired.spec.selector,
                                                         !.sessionAffinity = desired.spec.sessionAffinity]]
    ELSE [existing EXCEPT !.owners = desired.owners, !.spec = desired.spec]

\* After r.Client.Update and after r.Client.Create: the error is returned as it is.
EnsureCreatedAfterWrite(res) == [pc |-> "done", err |-> res.err]

\* ------------------------------------------------------- ensureDeleted

\* A variant that reports an object it did not find as an error.
EnsureDeletedAfterGetStrict(got, desired) ==
    IF got.err # Nil
    THEN [pc |-> "done", err |-> Err("UnableToRetrieve", desired.name, got.err.code)]
    ELSE IF ~desired.dt
         THEN [pc |-> "ed_delete", err |-> Nil]
         ELSE [pc |-> "ed_reget", err |-> Nil]

\* A variant that takes every error of the fetch for success.
EnsureDeletedAfterGetLenient(got, desired) ==
    IF got.err # Nil
    THEN [pc |-> "done", err |-> Nil]
    ELSE IF ~desired.dt
         THEN [pc |-> "ed_delete", err |-> Nil]
         ELSE [pc |-> "ed_reget", err |-> Nil]

\* A variant that issues no delete for an object it found.
EnsureDeletedAfterGetSkipDelete(got, desired) ==
    IF got.err # Nil
    THEN IF IsNotFound(got.err)
         THEN [pc |-> "done", err |-> Nil]
         ELSE [pc |-> "done", err |-> Err("UnableToRetrieve", desired.name, got.err.code)]
    ELSE [pc |-> "ed_reget", err |-> Nil]

\* After the first fetch: not found is success, another error is wrapped and
\* returned; then the deletion timestamp of the object just built decides
\* whether a delete is issued.
EnsureDeletedAfterGet(got, desired) ==
    IF got.err # Nil
    THEN IF IsNotFound(got.err)
         THEN [pc |-> "done", err |-> Nil]
         ELSE [pc |-> "done", err |-> Err("UnableToRetrieve", desired.name, got.err.code)]
    ELSE IF ~desired.dt
         THEN [pc |-> "ed_delete", err |-> Nil]
         ELSE [pc |-> "ed_reget", err |-> Nil]

\* A variant that goes on to the second fetch after a failed delete.
EnsureDeletedAfterDeleteGoOn(res, found) == [pc |-> "ed_reget", err |-> Nil]

\* After r.Client.Delete: an error is wrapped and returned.
EnsureDeletedAfterDelete(res, found) ==
    IF res.err # Nil
    THEN [pc |-> "done", err |-> Err("FailedToDelete", found.name, res.err.code)]
    ELSE [pc |-> "ed_reget", err |-> Nil]

\* A variant that returns success whatever the second fetch finds.
EnsureDeletedAfterRegetNoWait(got, desired) == [pc |-> "done", err |-> Nil]

\* A variant that fetches again while the object is still there.
EnsureDeletedAfterRegetPolling(got, desired) ==
    IF got.err # Nil /\ IsNotFound(got.err)
    THEN [pc |-> "done", err |-> Nil]
    ELSE IF got.err = Nil
         THEN [pc |-> "ed_reget", err |-> Nil]
         ELSE [pc |-> "done", err |-> Err("WaitingToBeDeleted", desired.name, "nil")]

\* After the second fetch: not found is success; everything else, another
\* error included, is reported as waiting for the deletion.
EnsureDeletedAfterReget(got, desired) ==
    IF got.err # Nil /\ IsNotFound(got.err)
    THEN [pc |-> "done", err |-> Nil]
    ELSE [pc |-> "done", err |-> Err("WaitingToBeDeleted", desired.name, "nil")]

\* ------------------------------------------------------------ the pass

\* The object the pass has built from the parent it was given.
Desired == NewObject(pass.kind, pass.parent)

PassKey == KeyOf(pass.kind, pass.parent)

\* A variant that addresses the exporter of the CephNFS reconciler whatever
\* the object.
ObjectKeyOfExporter(k, obj) ==
    [type |-> "CephNFS", name |-> <<ParentName, "cephnfs">>, namespace |-> obj.namespace]

\* The key under which the store holds an object: its kind, name and namespace.
ObjectKey(k, obj) == [type |-> ObjectKind(k), name |-> obj.name, namespace |-> obj.namespace]

\* The key ensureCreated fetches: name and namespace of the built object.
CreatedKey == ObjectKey(pass.kind, Desired)

\* A variant that addresses the exporter whatever the kind of the reconciler.
DeletedKeyOfExporter == KeyOf("CephNFS", pass.parent)

\* The key ensureDeleted fetches: the name of the built object and the
\* namespace of the parent.
DeletedKey ==
    [type |-> ObjectKind(pass.kind), name |-> Desired.name, namespace |-> pass.parent.namespace]

\* How a fetch is remembered in the trace of the pass.
Seen(got) ==
    IF got.err # Nil THEN got.err.code
    ELSE IF got.obj.dt THEN "marked" ELSE "found"

Call(op, res) == [op |-> op, res |-> res]

Idle ==
    [entry |-> "none", kind |-> "none", parent |-> parent, scheme |-> TRUE, pc |-> "idle",
     existing |-> Absent, trace |-> <<>>, err |-> Nil, result |-> ZeroResult]

\* The arguments of the call: the receiver's kind, r (of which r.Scheme
\* matters) and the parent as it is now.
StartOfPass(entry, k, schemeOK) ==
    [entry |-> entry, kind |-> k, parent |-> parent, scheme |-> schemeOK, pc |-> "done",
     existing |-> Absent, trace |-> <<>>, err |-> Nil, result |-> ZeroResult]

\* A variant of ensureDeleted that ignores the error of the builder.
EnsureDeletedStartNameOnly(start) == [start EXCEPT !.pc = "ed_get"]

\* ensureDeleted up to its first fetch: build the object for its name.
EnsureDeletedStart(start) ==
    LET b == Build(start.kind, start.parent, start.scheme)
    IN IF b.err # Nil
       THEN [start EXCEPT !.pc = "done", !.err = b.err]
       ELSE [start EXCEPT !.pc = "ed_get"]

\* ensureCreated up to its fetch: the policy, then the builder.
EnsureCreatedStart(start) ==
    IF ~ShouldExist(start.kind, start.parent)
    THEN EnsureDeletedStart(start)
    ELSE LET b == Build(start.kind, start.parent, start.scheme)
         IN IF b.err # Nil
            THEN [start EXCEPT !.pc = "done", !.err = b.err]
            ELSE [start EXCEPT !.pc = "ec_get"]

BeginEnsureCreated(k, schemeOK) ==
    /\ pass.pc = "idle"
    /\ k = kind
    /\ pass' = EnsureCreatedStart(StartOfPass("ensureCreated", k, schemeOK))
    /\ UNCHANGED <<kind, parent, live, settled, ext>>

BeginEnsureDeleted(k, schemeOK) ==
    /\ pass.pc = "idle"
    /\ k = kind
    /\ pass' = EnsureDeletedStart(StartOfPass("ensureDeleted", k, schemeOK))
    /\ UNCHANGED <<kind, parent, live, settled, ext>>

\* ensureCreated: r.Client.Get into `existing` and the switch on its error.
CreatedGet(fault) ==
    /\ pass.pc = "ec_get"
    /\ LET got == ClientGet(CreatedKey, fault)
           to == EnsureCreatedAfterGet(got)
       IN pass' = [pass EXCEPT !.pc = to.pc, !.err = to.err, !.existing = got.obj,
                               !.trace = Append(@, Call("get", Seen(got)))]
    /\ UNCHANGED <<kind, parent, live, settled, ext>>

\* ensureCreated: merge into `existing` and r.Client.Update.
CreatedUpdate(fault) ==
    /\ pass.pc = "ec_update"
    /\ LET res == ClientUpdate(ObjectKey(pass.kind, pass.existing),
                                Merge(pass.kind, Desired, pass.existing), fault)
           to == EnsureCreatedAfterWrite(res)
       IN /\ pass' = [pass EXCEPT !.pc = to.pc, !.err = to.err,
                                  !.trace = Append(@, Call("update", res.err.code))]
          /\ live' = res.store
    /\ UNCHANGED <<kind, parent, settled, ext>>

\* ensureCreated: r.Client.Create of the built object.
CreatedCreate(fault) ==
    /\ pass.pc = "ec_create"
    /\ LET res == ClientCreate(CreatedKey, Desired, fault)
           to == EnsureCreatedAfterWrite(res)
       IN /\ pass' = [pass EXCEPT !.pc = to.pc, !.err = to.err,
                                  !.trace = Append(@, Call("create", res.err.code))]
          /\ live' = res.store
    /\ UNCHANGED <<kind, parent, settled, ext>>

\* ensureDeleted: the first r.Client.Get, into the found object.
DeletedGet(fault) ==
    /\ pass.pc = "ed_get"
    /\ LET got == ClientGet(DeletedKey, fault)
           to == EnsureDeletedAfterGet(got, Desired)
       IN pass' = [pass EXCEPT !.pc = to.pc, !.err = to.err, !.existing = got.obj,
                               !.trace = Append(@, Call("get", Seen(got)))]
    /\ UNCHANGED <<kind, parent, live, settled, ext>>

\* ensureDeleted: r.Client.Delete of the found object.
DeletedDelete(fault) ==
    /\ pass.pc = "ed_delete"
    /\ LET res == ClientDelete(ObjectKey(pass.kind, pass.existing), fault)
           to == EnsureDeletedAfterDelete(res, pass.existing)
       IN /\ pass' = [pass EXCEPT !.pc = to.pc, !.err = to.err,
                                  !.trace = Append(@, Call("delete", res.err.code))]
          /\ live' = res.store
    /\ UNCHANGED <<kind, parent, settled, ext>>

\* ensureDeleted: the second r.Client.Get, into the found object.
DeletedReget(fault) ==
    /\ pass.pc = "ed_reget"
    /\ LET got == ClientGet(DeletedKey, fault)
           to == EnsureDeletedAfterReget(got, Desired)
       IN pass' = [pass EXCEPT !.pc = to.pc, !.err = to.err,
                               !.existing = IF got.err = Nil THEN got.obj ELSE @,
                               !.trace = Append(@, Call("get", Seen(got)))]
    /\ UNCHANGED <<kind, parent, live, settled, ext>>

\* The call returns to its caller: (reconcile.Result{}, err). What the caller
\* keeps of the pass is whether it can be repeated as it was.
Wrote(t) == \E i \in 1..Len(t) : t[i].op \in {"create", "update"} /\ t[i].res = "nil"

Return ==
    /\ pass.pc = "done"
    /\ settled' = (pass.entry = "ensureCreated" /\ pass.err = Nil /\ Wrote(pass.trace))
    /\ pass' = Idle
    /\ UNCHANGED <<kind, parent, live, ext>>

\* ---------------------------------------------------------- other actors
\* Other actors act between the calls of a pass and between passes; the
\* return of a call to its caller takes no time.

\* The key of the object the reconciler under study manages. What other
\* actors do to other objects is nothing the reconciler reads.
ManagedKey == KeyOf(kind, parent)

OwnerSets == {{}, {OwnerRefOf(parent)}, {OtherOwner}, {OwnerRefOf(parent), OtherOwner}}

\* Specs another actor may write: the spec some parent asks for, or that
\* spec with one field changed.
ForeignSpecs(k) ==
    LET asked == {SpecOf(k, p) : p \in ParentsOf(k)}
    IN asked \cup
       CASE ObjectKind(k) = "Service" -> {[sp EXCEPT !.sessionAffinity = "None"] : sp \in asked}
         [] ObjectKind(k) = "CephNFS" -> {[sp EXCEPT !.active = 2] : sp \in asked}
         [] OTHER -> {[sp EXCEPT !.enableRBDStats = FALSE] : sp \in asked}

\* Another actor creates an object under a managed name.
ExternalCreate(key, owners, spec, fin) ==
    /\ ext < MaxExternal
    /\ pass.pc # "done"
    /\ live[key] = Absent
    /\ live' = [live EXCEPT ![key] =
                    [name |-> key.name, namespace |-> key.namespace, owners |-> owners,
                     spec |-> spec, dt |-> FALSE, fin |-> fin,
                     rv |-> FreshVersion, uid |-> "uid"]]
    /\ ext' = ext + 1
    /\ settled' = FALSE
    /\ UNCHANGED <<kind, parent, pass>>

\* Another actor rewrites the owner references or the spec of a live object.
ExternalEdit(key, owners, spec) ==
    /\ ext < MaxExternal
    /\ pass.pc # "done"
    /\ live[key] # Absent
    /\ owners # live[key].owners \/ spec # live[key].spec
    /\ live' = [live EXCEPT ![key] =
                    [@ EXCEPT !.owners = owners, !.spec = spec, !.rv = FreshVersion]]
    /\ ext' = ext + 1
    /\ settled' = FALSE
    /\ UNCHANGED <<kind, parent, pass>>

\* Another controller puts its finalizer on a live object.
AddFinalizer(key) ==
    /\ ext < MaxExternal
    /\ pass.pc # "done"
    /\ live[key] # Absent
    /\ ~live[key].dt /\ ~live[key].fin
    /\ live' = [live EXCEPT ![key] = [@ EXCEPT !.fin = TRUE, !.rv = FreshVersion]]
    /\ ext' = ext + 1
    /\ settled' = FALSE
    /\ UNCHANGED <<kind, parent, pass>>

\* Another actor (a user, the garbage collector) deletes a live object.
ExternalDelete(key) ==
    /\ ext < MaxExternal
    /\ pass.pc # "done"
    /\ live[key] # Absent /\ ~live[key].dt
    /\ live' = ClientDelete(key, FALSE).store
    /\ ext' = ext + 1
    /\ settled' = FALSE
    /\ UNCHANGED <<kind, parent, pass>>

\* The finalizers of an object marked for deletion are done: the store removes it.
FinalizerDone(key) ==
    /\ pass.pc # "done"
    /\ live[key] # Absent
    /\ live[key].dt
    /\ live' = [live EXCEPT ![key] = Absent]
    /\ settled' = FALSE
    /\ UNCHANGED <<kind, parent, pass, ext>>

\* The user edits the parent. A pass works on the parent it was given, so an
\* edit during a pass shows the same as one right after it.
ParentChange(p) ==
    /\ ext < MaxExternal
    /\ pass.pc = "idle"
    /\ p # parent
    /\ parent' = p
    /\ pass' = [pass EXCEPT !.parent = p]
    /\ ext' = ext + 1
    /\ settled' = FALSE
    /\ UNCHANGED <<kind, live>>

\* ---------------------------------------------------- the specification

\* The objects of the other reconcilers of the build are live, as those
\* reconcilers created them.
Init ==
    /\ kind \in Kinds
    /\ parent \in ParentsOf(kind)
    /\ live = [key \in Keys |->
                IF \E k \in BuildOf(kind) : key = KeyOf(k, parent) /\ key # KeyOf(kind, parent)
                THEN LET k == CHOOSE k \in BuildOf(kind) : key = KeyOf(k, parent)
                     IN [NewObject(k, parent) EXCEPT !.uid = "uid", !.rv = "rv0"]
                ELSE Absent]
    /\ pass = Idle
    /\ settled = FALSE
    /\ ext = 0

Next ==
    \/ \E k \in Kinds, schemeOK \in BOOLEAN : BeginEnsureCreated(k, schemeOK)
    \/ \E k \in Kinds, schemeOK \in BOOLEAN : BeginEnsureDeleted(k, schemeOK)
    \/ \E fault \in BOOLEAN : CreatedGet(fault)
    \/ \E fault \in BOOLEAN : CreatedUpdate(fault)
    \/ \E fault \in BOOLEAN : CreatedCreate(fault)
    \/ \E fault \in BOOLEAN : DeletedGet(fault)
    \/ \E fault \in BOOLEAN : DeletedDelete(fault)
    \/ \E fault \in BOOLEAN : DeletedReget(fault)
    \/ Return
    \/ \E owners \in OwnerSets, fin \in BOOLEAN, spec \in ForeignSpecs(kind) :
            ExternalCreate(ManagedKey, owners, spec, fin)
    \/ \E owners \in OwnerSets, spec \in ForeignSpecs(kind) :
            ExternalEdit(ManagedKey, owners, spec)
    \/ AddFinalizer(ManagedKey)
    \/ ExternalDelete(ManagedKey)
    \/ FinalizerDone(ManagedKey)
    \/ \E p \in ParentsOf(kind) : ParentChange(p)

Spec == Init /\ [][Next]_vars

\* ------------------------------------------------ the caller that retries
\* A second specification: the caller calls once and calls again after every
\* pass that returned an error; it may call again after a success too. The
\* parent stays as it is, ensureDeleted is called directly only while the
\* feature is not enabled, the builder succeeds, and the only other actor is
\* the one that completes the deletions the store has accepted.

\* The call returns to its caller, which keeps the error until it calls again.
ReturnToCaller ==
    /\ pass.pc = "done"
    /\ settled' = (pass.entry = "ensureCreated" /\ pass.err = Nil /\ Wrote(pass.trace))
    /\ pass' = [Idle EXCEPT !.entry = "returned", !.err = pass.err]
    /\ UNCHANGED <<kind, parent, live, ext>>

CallEntry(entry) ==
    \/ entry = "ensureCreated" /\ BeginEnsureCreated(kind, TRUE)
    \/ entry = "ensureDeleted" /\ parent.nfs # "enabled" /\ BeginEnsureDeleted(kind, TRUE)

\* The first call, and the call again after a pass that returned an error.
CallerInvokes ==
    /\ pass.pc = "idle"
    /\ pass.entry = "none" \/ pass.err # Nil
    /\ \E entry \in {"ensureCreated", "ensureDeleted"} : CallEntry(entry)

\* A call for another reason, after a pass that returned no error.
CallerResyncs ==
    /\ pass.pc = "idle"
    /\ pass.entry = "returned" /\ pass.err = Nil
    /\ \E entry \in {"ensureCreated", "ensureDeleted"} : CallEntry(entry)

\* The managed object as earlier passes and other actors may have left it:
\* absent, or created from the parent, with or without a finalizer, marked
\* for deletion or not.
LiveObjects(k, p) ==
    {Absent} \cup
    {[NewObject(k, p) EXCEPT !.uid = "uid", !.rv = "rv0", !.fin = fd[1], !.dt = fd[2]] :
        fd \in {<<FALSE, FALSE>>, <<TRUE, FALSE>>, <<TRUE, TRUE>>}}

LiveInit ==
    /\ kind \in Kinds
    /\ parent \in ParentsOf(kind)
    /\ \E o \in LiveObjects(kind, parent) :
          live = [key \in Keys |->
                    IF key = KeyOf(kind, parent) THEN o
                    ELSE IF \E k \in BuildOf(kind) : key = KeyOf(k, parent)
                    THEN LET k == CHOOSE k \in BuildOf(kind) : key = KeyOf(k, parent)
                         IN [NewObject(k, parent) EXCEPT !.uid = "uid", !.rv = "rv0"]
                    ELSE Absent]
    /\ pass = Idle
    /\ settled = FALSE
    /\ ext = 0

LiveNext ==
    \/ CallerInvokes
    \/ CallerResyncs
    \/ \E fault \in BOOLEAN : CreatedGet(fault)
    \/ \E fault \in BOOLEAN : CreatedUpdate(fault)
    \/ \E fault \in BOOLEAN : CreatedCreate(fault)
    \/ \E fault \in BOOLEAN : DeletedGet(fault)
    \/ \E fault \in BOOLEAN : DeletedDelete(fault)
    \/ \E fault \in BOOLEAN : DeletedReget(fault)
    \/ ReturnToCaller
    \/ FinalizerDone(ManagedKey)

\* A call to the store returns; a call returns to its caller; the caller
\* calls as it has to.
PassStep ==
    \/ \E fault \in BOOLEAN : CreatedGet(fault)
    \/ \E fault \in BOOLEAN : CreatedUpdate(fault)
    \/ \E fault \in BOOLEAN : CreatedCreate(fault)
    \/ \E fault \in BOOLEAN : DeletedGet(fault)
    \/ \E fault \in BOOLEAN : DeletedDelete(fault)
    \/ \E fault \in BOOLEAN : DeletedReget(fault)
    \/ ReturnToCaller
    \/ CallerInvokes

\* The passes go on, and a deletion the store has accepted is completed
\* however often a pass is at its return when it could be.
LiveSpec ==
    /\ LiveInit /\ [][LiveNext]_vars
    /\ WF_vars(PassStep)
    /\ SF_vars(FinalizerDone(ManagedKey))

\* ------------------------------------------------------------ properties

Finished == pass.pc = "done"

\* The feature is enabled in the parent the pass was given.
Enabled == pass.parent.nfs = "enabled"

\* The pass runs ensureDeleted: called as such, or through ensureCreated
\* for a parent whose feature is not enabled.
Deleting == pass.entry = "ensureDeleted" \/ (pass.entry = "ensureCreated" /\ ~Enabled)

Count(op) == Cardinality({i \in 1..Len(pass.trace) : pass.trace[i].op = op})

\* What the first fetch of the pass found.
FirstFetch == IF Len(pass.trace) > 0 THEN pass.trace[1].res ELSE "none"

LastCall == IF Len(pass.trace) > 0 THEN pass.trace[Len(pass.trace)] ELSE Call("none", "none")

\* The last call of the pass was a create or an update the store accepted.
WroteLast == LastCall.op \in {"create", "update"} /\ LastCall.res = "nil"

\* A call failed with an error that is not a not-found of a fetch.
Failed(c) ==
    \/ c.op = "get" /\ c.res \notin {"found", "marked", "NotFound"}
    \/ c.op # "get" /\ c.res # "nil"

\* C1: when the feature is enabled and the object ensureCreated fetched is
\* marked for deletion, ensureCreated returns the marked-for-deletion error,
\* has issued no create and no update, and the live object is as fetched.
C1_ConflictRejection ==
    (pass.entry = "ensureCreated" /\ Enabled /\ FirstFetch = "marked") =>
        /\ Finished
        /\ pass.err = Err("MarkedForDeletion", NameOf(pass.kind, pass.parent), "nil")
        /\ Count("create") = 0 /\ Count("update") = 0 /\ Count("delete") = 0
        /\ live[PassKey] = pass.existing

C1_Witness ==
    /\ Finished /\ pass.entry = "ensureCreated" /\ Enabled
    /\ FirstFetch = "marked" /\ live[PassKey].dt

\* C2: when a call to the store made by ensureCreated or ensureDeleted has
\* failed with an error other than a not-found of a fetch, the pass returns
\* an error.
C2_ErrorsSurfaced ==
    (Finished /\ \E i \in 1..Len(pass.trace) : Failed(pass.trace[i])) => pass.err # Nil

\* C3: when the object ensureDeleted fetched is already marked for deletion,
\* ensureDeleted issues no delete.
C3_DeleteOnlyUnmarked ==
    (Deleting /\ FirstFetch = "marked") => Count("delete") = 0

\* C4: a finished ensureDeleted that found the object has issued exactly one
\* delete, right after the fetch; if the delete was accepted it has fetched
\* once more, and it returns no error if the object was gone then and the
\* waiting-to-be-deleted error if the object was still there.
C4_DeletionConvergence ==
    (Finished /\ Deleting /\ FirstFetch \in {"found", "marked"}) =>
        /\ Count("delete") = 1 /\ pass.trace[2].op = "delete"
        /\ Count("create") = 0 /\ Count("update") = 0
        /\ pass.trace[2].res = "nil" =>
              /\ Len(pass.trace) = 3 /\ pass.trace[3].op = "get"
              /\ pass.trace[3].res = "NotFound" => pass.err = Nil
              /\ pass.trace[3].res \in {"found", "marked"} =>
                    pass.err = Err("WaitingToBeDeleted", NameOf(pass.kind, pass.parent), "nil")

C4_Witness ==
    /\ Finished /\ pass.entry = "ensureDeleted" /\ Enabled
    /\ Len(pass.trace) = 3 /\ pass.trace[1].res = "found" /\ pass.trace[2].res = "nil"
    /\ pass.trace[3].res = "marked" /\ pass.err.code = "WaitingToBeDeleted"

\* C5: when the first fetch of ensureDeleted finds no object, ensureDeleted
\* returns no error and has made no other call; the object is still absent.
C5_NotFoundIsSuccess ==
    (Deleting /\ FirstFetch = "NotFound") =>
        /\ Finished /\ pass.err = Nil /\ pass.result = ZeroResult
        /\ Len(pass.trace) = 1
        /\ live[PassKey] = Absent

C5_Witness ==
    /\ Finished /\ pass.entry = "ensureDeleted" /\ pass.scheme
    /\ pass.trace = <<Call("get", "NotFound")>> /\ pass.err = Nil

\* What the store answered in call c, as the reconciler reads it.
GotOf(c, k, p) ==
    IF c.res \in {"found", "marked"}
    THEN [err |-> Nil, obj |-> [name |-> NameOf(k, p), dt |-> (c.res = "marked")]]
    ELSE [err |-> Err(c.res, <<>>, "nil"), obj |-> Absent]

ResOf(c) == [err |-> IF c.res = "nil" THEN Nil ELSE Err(c.res, <<>>, "nil")]

\* The calls ensureDeleted makes and the error it returns for kind k, parent
\* p and scheme ok when the store answers as in trace t.
AsEnsureDeleted(k, p, ok, t) ==
    LET d == NewObject(k, p)
        b == Build(k, p, ok)
        found == [name |-> NameOf(k, p)]
        none == [err |-> Nil, ops |-> <<"none">>]
        first == EnsureDeletedAfterGet(GotOf(t[1], k, p), d)
        del == EnsureDeletedAfterDelete(ResOf(t[2]), found)
        again(i) == EnsureDeletedAfterReget(GotOf(t[i], k, p), d)
    IN IF b.err # Nil THEN [err |-> b.err, ops |-> <<>>]
       ELSE IF Len(t) < 1 THEN none
       ELSE IF first.pc = "done" THEN [err |-> first.err, ops |-> <<"get">>]
       ELSE IF Len(t) < 2 THEN none
       ELSE IF first.pc = "ed_reget" THEN [err |-> again(2).err, ops |-> <<"get", "get">>]
       ELSE IF del.pc = "done" THEN [err |-> del.err, ops |-> <<"get", "delete">>]
       ELSE IF Len(t) < 3 THEN none
       ELSE [err |-> again(3).err, ops |-> <<"get", "delete", "get">>]

\* C6: every kind should exist exactly when the feature flag is set; and a
\* finished ensureCreated for a parent whose flag is false or that has no
\* NFS settings has made the calls and returns the result and the error that
\* ensureDeleted makes and returns when the store answers the same.
C6_DisableDrivesDelete ==
    /\ \A k \in Kinds, p \in Parents : ShouldExist(k, p) = (p.nfs = "enabled")
    /\ (Finished /\ pass.entry \in {"ensureCreated", "ensureDeleted"} /\ Deleting) =>
          /\ [err |-> pass.err, ops |-> [i \in 1..Len(pass.trace) |-> pass.trace[i].op]]
                = AsEnsureDeleted(pass.kind, pass.parent, pass.scheme, pass.trace)
          /\ pass.result = ZeroResult

C6_Witness ==
    /\ Finished /\ pass.entry = "ensureCreated" /\ pass.parent.nfs = "nil"
    /\ Len(pass.trace) = 3 /\ pass.trace[2] = Call("delete", "nil")
    /\ pass.trace[3].res = "NotFound" /\ live[PassKey] = Absent

\* C7: an ensureCreated that follows an ensureCreated which wrote the
\* object and returned no error, with the parent unchanged, no call failing
\* and nobody else acting, fetches the object, updates it, returns no error
\* and leaves the live object exactly as the first call left it.
C7_Idempotence ==
    (Finished /\ pass.entry = "ensureCreated" /\ settled /\ pass.scheme
       /\ \A i \in 1..Len(pass.trace) : pass.trace[i].res # "Transient") =>
        /\ pass.trace = <<Call("get", "found"), Call("update", "nil")>>
        /\ pass.err = Nil
        /\ live[PassKey] = pass.existing

C7_Witness ==
    /\ Finished /\ pass.entry = "ensureCreated" /\ settled
    /\ pass.trace = <<Call("get", "found"), Call("update", "nil")>>
    /\ pass.parent.network = "host"

\* C8: after a create or an update of ensureCreated that the store accepted,
\* the owner references of the live object are exactly the one controller
\* reference to the parent.
C8_Ownership ==
    (Finished /\ pass.entry = "ensureCreated" /\ WroteLast) =>
        /\ live[PassKey] # Absent
        /\ live[PassKey].owners = {OwnerRefOf(pass.parent)}
        /\ Cardinality(live[PassKey].owners) = 1

C8_Witness ==
    /\ Finished /\ pass.entry = "ensureCreated" /\ LastCall = Call("update", "nil")
    /\ pass.existing.owners = {OwnerRefOf(pass.parent), OtherOwner}

\* C9: after a create or an update of ensureCreated that the store accepted,
\* with the feature enabled, the live object exists and its name and spec
\* are those of the object built from the parent of the pass.
C9_ConvergesToDesired ==
    (Finished /\ pass.entry = "ensureCreated" /\ Enabled /\ WroteLast /\ pass.err = Nil) =>
        /\ live[PassKey] # Absent
        /\ live[PassKey].name = Desired.name
        /\ live[PassKey].spec = Desired.spec

\* C10: no step of a reconciler pass changes a live object that is marked
\* for deletion or puts another object in its place, and no step of anyone
\* clears the mark: an object marked for deletion stays marked until it is gone.
C10_NeverResurrected ==
    [][\A key \in Keys :
          (live[key] # Absent /\ live[key].dt) =>
              /\ pass' # pass => live'[key] = live[key]
              /\ live'[key] = Absent \/ live'[key].dt]_vars

C10_Witness ==
    /\ Finished /\ Deleting
    /\ pass.trace = <<Call("get", "marked"), Call("delete", "nil"), Call("get", "marked")>>
    /\ live[PassKey] # Absent /\ live[PassKey].dt

\* C13: ensureDeleted returns the waiting-to-be-deleted error only when its
\* second fetch found the object still there.
C13_WaitingMeansPresent ==
    (Finished /\ pass.err.code = "WaitingToBeDeleted") => LastCall.res \in {"found", "marked"}

C15_ErrorNamesKind ==
    (Finished /\ pass.err.code = "MarkedForDeletion") =>
        /\ ErrorText(pass.kind, pass.err).name = NameOf(pass.kind, pass.parent)
        /\ ErrorText(pass.kind, pass.err).kind = KindWord(pass.kind)

\* C16: the builder gives an object of a kind and a parent one name and one
\* namespace; ensureCreated and ensureDeleted address the same key; and an
\* ensureDeleted that follows an ensureCreated which wrote the object, with
\* nobody else acting, finds that object, and its delete removes it or marks it.
C16_DeterministicNaming ==
    /\ pass.pc = "idle" =>
          \A k \in Kinds, p \in Parents : ObjectKey(k, NewObject(k, p)) = KeyOf(k, p)
    /\ (pass.pc # "idle") => (CreatedKey = DeletedKey /\ DeletedKey = PassKey)
    /\ (pass.entry = "ensureDeleted" /\ settled /\ Len(pass.trace) >= 1
          /\ pass.trace[1].res # "Transient") =>
            /\ pass.trace[1].res = "found"
            /\ (Len(pass.trace) >= 2 /\ pass.trace[2] = Call("delete", "nil")) =>
                  (live[PassKey] = Absent \/ live[PassKey].dt)

C16_Witness ==
    /\ Finished /\ pass.entry = "ensureDeleted" /\ settled
    /\ pass.trace = <<Call("get", "found"), Call("delete", "nil"), Call("get", "NotFound")>>
    /\ live[PassKey] = Absent

\* C17: when the builder fails, ensureCreated and ensureDeleted return its
\* error and make no call to the store.
C17_BuilderFailureAborts ==
    (pass.pc # "idle" /\ ~pass.scheme) =>
        /\ Finished
        /\ pass.err = Build(pass.kind, pass.parent, pass.scheme).err /\ pass.err # Nil
        /\ pass.trace = <<>>

C17_Witness ==
    /\ Finished /\ pass.entry = "ensureDeleted" /\ ~pass.scheme
    /\ live[PassKey] # Absent /\ ~live[PassKey].dt

\* C18: when the first fetch of ensureDeleted fails with an error that is not
\* not-found, ensureDeleted returns an error and has made no other call.
C18_FetchErrorStopsDelete ==
    (Deleting /\ pass.pc # "idle" /\ FirstFetch \notin {"none", "found", "marked", "NotFound"}) =>
        /\ Finished
        /\ pass.err = Err("UnableToRetrieve", NameOf(pass.kind, pass.parent), FirstFetch)
        /\ Len(pass.trace) = 1

C18_Witness ==
    /\ Finished /\ Deleting /\ pass.trace = <<Call("get", "Transient")>>
    /\ live[PassKey] # Absent /\ pass.err.code = "UnableToRetrieve"

\* A create, an update or a delete.
Mutating(c) == c.op \in {"create", "update", "delete"}

\* C19: a create, an update or a delete that the store rejected is the last
\* call of its pass and the only create, update or delete of it, the pass
\* returns an error, and the rejected call has left the live objects as they were.
C19_FailedWriteEndsPass ==
    /\ [](\A i \in 1..Len(pass.trace) :
             (Mutating(pass.trace[i]) /\ pass.trace[i].res # "nil") =>
                 /\ i = Len(pass.trace) /\ Finished /\ pass.err # Nil
                 /\ \A j \in 1..Len(pass.trace) : Mutating(pass.trace[j]) => j = i)
    /\ [][(Len(pass'.trace) = Len(pass.trace) + 1
            /\ Mutating(pass'.trace[Len(pass'.trace)])
            /\ pass'.trace[Len(pass'.trace)].res # "nil") => live' = live]_vars

C19_Witness ==
    /\ Finished /\ Deleting /\ pass.trace = <<Call("get", "found"), Call("delete", "Transient")>>
    /\ pass.err.code = "FailedToDelete" /\ live[PassKey] = pass.existing

NoFault == \A i \in 1..Len(pass.trace) : pass.trace[i].res # "Transient"

\* The managed object is absent, the caller has called, and the last call
\* has returned no error and made no create, update or delete.
DeletedForGood ==
    /\ live[ManagedKey] = Absent
    /\ pass.entry # "none" /\ pass.err = Nil
    /\ \A i \in 1..Len(pass.trace) : ~Mutating(pass.trace[i])

\* C11: while the feature is not enabled, the caller calls again after every
\* error, the calls to the store succeed from some time on and accepted
\* deletions are completed: from some time on the managed object is absent
\* and every pass returns no error and makes no create, update or delete.
C11_DeletionCompletes ==
    (parent.nfs # "enabled" /\ <>[]NoFault) => <>[]DeletedForGood

C11_Witness ==
    /\ Finished /\ ~Enabled
    /\ pass.trace = <<Call("get", "marked"), Call("delete", "nil"), Call("get", "NotFound")>>
    /\ pass.err = Nil /\ live[ManagedKey] = Absent

\* The managed object is live, not marked for deletion and as the builder
\* makes it, and the last call has returned no error.
CreatedAnew ==
    /\ live[ManagedKey] # Absent /\ ~live[ManagedKey].dt
    /\ live[ManagedKey].spec = SpecOf(kind, parent)
    /\ pass.err = Nil

\* C12: with the feature enabled and the managed object marked for deletion,
\* the caller calling again after every error, the calls to the store
\* succeeding from some time on and the deletion being completed: every
\* ensureCreated that fetches the marked object returns the
\* marked-for-deletion error, and from some time on a fresh object is live
\* as the builder makes it and ensureCreated returns no error.
C12_CreatedAfterDeletion ==
    (parent.nfs = "enabled" /\ live[ManagedKey] # Absent /\ live[ManagedKey].dt
        /\ <>[]NoFault) =>
        /\ []((Finished /\ FirstFetch = "marked") => pass.err.code = "MarkedForDeletion")
        /\ <>[]CreatedAnew

\* A step of the reconciler: a call begins, a call to the store returns, or
\* the call returns to its caller.
ReconcilerStep == pass'.pc # pass.pc \/ pass'.trace # pass.trace

\* C21: no step of a reconciler changes the parent or the live object under
\* any key but the one of its own kind, name and namespace.
C21_OwnObjectOnly ==
    [][ReconcilerStep =>
          /\ parent' = parent
          /\ \A key \in Keys \ {KeyOf(kind, parent)} : live'[key] = live[key]]_vars

C21_Witness ==
    /\ Finished /\ WroteLast /\ live[PassKey] # Absent
    /\ \E key \in Keys \ {PassKey} : live[key] # Absent /\ live[key].owners = {OwnerRefOf(parent)}

\* C22: a pass makes its calls one after the other and never one twice:
\* ensureCreated with the feature enabled at most one fetch and at most one
\* create or update and no delete; ensureDeleted at most two fetches and at
\* most one delete, between them, and no create or update.
C22_BoundedCalls ==
    /\ (pass.entry = "ensureCreated" /\ Enabled) =>
          /\ Count("get") <= 1 /\ Count("create") + Count("update") <= 1
          /\ Count("delete") = 0 /\ Len(pass.trace) <= 2
          /\ pass.pc = "ec_get" => Len(pass.trace) = 0
          /\ pass.pc \in {"ec_update", "ec_create"} => Len(pass.trace) = 1
          /\ pass.pc \in {"ec_get", "ec_update", "ec_create", "done"}
    /\ (Deleting /\ pass.pc # "idle") =>
          /\ Count("get") <= 2 /\ Count("delete") <= 1
          /\ Count("create") + Count("update") = 0 /\ Len(pass.trace) <= 3
          /\ pass.pc = "ed_get" => Len(pass.trace) = 0
          /\ pass.pc = "ed_delete" => Len(pass.trace) = 1
          /\ pass.pc = "ed_reget" => (Len(pass.trace) = 2 /\ pass.trace[2].op = "delete")
          /\ pass.pc \in {"ed_get", "ed_delete", "ed_reget", "done"}

C22_Witness ==
    /\ Finished /\ pass.entry = "ensureDeleted" /\ Len(pass.trace) = 3
    /\ Count("get") = 2 /\ Count("delete") = 1 /\ pass.trace[3].res = "found"

\* C23: when ensureDeleted returns because the deletion is still going on,
\* the result it returns asks for another call (Requeue or a positive
\* RequeueAfter); when it returns no error the result asks for none.
C23_RequeueHintSignals ==
    /\ (Finished /\ Deleting /\ pass.err.code = "WaitingToBeDeleted"
          /\ LastCall.res \in {"found", "marked"}) =>
            (pass.result.requeue \/ pass.result.requeueAfter > 0)
    /\ (Finished /\ Deleting /\ pass.err = Nil) => pass.result = ZeroResult

\* The ways a pass ends with the object created, updated, or found absent
\* by the first or by the second fetch of ensureDeleted.
SuccessPaths ==
    {<<Call("get", "NotFound"), Call("create", "nil")>>,
     <<Call("get", "found"), Call("update", "nil")>>,
     <<Call("get", "NotFound")>>,
     <<Call("get", "found"), Call("delete", "nil"), Call("get", "NotFound")>>,
     <<Call("get", "marked"), Call("delete", "nil"), Call("get", "NotFound")>>}

\* C24: every pass returns the zero result, and returns no error only when
\* it has created the object, updated it, or found it absent at the first
\* or at the second fetch of ensureDeleted.
C24_ZeroHintErrorOnly ==
    Finished =>
        /\ pass.result = ZeroResult
        /\ pass.err = Nil =>
              /\ pass.trace \in SuccessPaths
              /\ Len(pass.trace) = 1 => Deleting

\* The exporter the pods of which the Service of reconciler k selects.
ExporterOf(k) == IF k = "NFSService" THEN "CephNetworkFilesystem" ELSE "CephNFS"

\* C25: after a create or an update of the Service by ensureCreated, the
\* exporter of the same parent is live and the ceph_nfs value of the
\* Service's selector is its name.
C25_ServiceSelectsExporter ==
    (Finished /\ pass.entry = "ensureCreated" /\ WroteLast
        /\ pass.kind \in {"NFSService", "CephNFSService"}) =>
        LET exporter == KeyOf(ExporterOf(pass.kind), pass.parent)
        IN /\ live[exporter] # Absent /\ ~live[exporter].dt
           /\ live[PassKey] # Absent
           /\ live[PassKey].spec.selector.ceph_nfs = live[exporter].name

C25_Witness ==
    /\ Finished /\ pass.entry = "ensureCreated" /\ pass.kind = "NFSService"
    /\ LastCall = Call("create", "nil")
    /\ live[PassKey].spec.selector.ceph_nfs = live[KeyOf("CephNetworkFilesystem", parent)].name

====
